---- MODULE Spec2Model ----
(***************************************************************************)
(* reson: the event dispatcher of src/app.rs (App::run), its viewport      *)
(* (scrollbar) states, focus state machine and process sort state.         *)
(*                                                                         *)
(* The dispatcher state is the record app, one field per field of struct   *)
(* App; sys is the metrics snapshot owned by the caller of App::run.       *)
(* queue is the contents of the mpsc channel between read_input_events     *)
(* and App::run, input the position and the locals of read_input_events,   *)
(* run the position of App::run: in its loop, or returned (the task of     *)
(* read_input_events aborted, the receiver dropped).                       *)
(* last and calls are history variables: the event source the loop         *)
(* serviced last and the number of inputs counted so far.                  *)
(***************************************************************************)
EXTENDS Integers, Sequences, FiniteSets, TLC

VARIABLES app, sys, last, calls, queue, input, run, details

vars == <<app, sys, last, calls, queue, input, run, details>>

(***************************************************************************)
(* Bounds of the model.                                                    *)
(***************************************************************************)
\* item counts of the busy metrics snapshot
MaxProcesses == 5
MaxDisks == 2
MaxNetworks == 5
\* largest scroll bound the CPU bar chart builder reports
MaxCpuScroll == 2
\* largest scroll bound in the runs of SpecScrollNext, and largest number
\* of counted input messages (SpecScrollNext, SpecTab)
MaxBound == 8
MaxCalls == 10

Min(a, b) == IF a < b THEN a ELSE b

(***************************************************************************)
(* usize arithmetic.  saturating_add(1).clamp(0, m) equals min(p + 1, m)   *)
(* for every usize p, so the unbounded sum below is exact.                 *)
(***************************************************************************)
saturating_add(a, b) == a + b

\* faulty variant: a plain subtraction, which goes below 0
saturating_sub_plain(a, b) == a - b

saturating_sub(a, b) == IF a >= b THEN a - b ELSE 0

\* faulty variant: the upper bound is not applied
clamp_no_upper(v, lo, hi) == IF v < lo THEN lo ELSE v

clamp(v, lo, hi) == IF v < lo THEN lo ELSE IF v > hi THEN hi ELSE v

(***************************************************************************)
(* enum SelectedTab                                                        *)
(***************************************************************************)
SelectedTab == {"Cpu", "Processes", "Disks", "Networks", "None"}

\* faulty variant: the cycle skips None
SelectedTab_next_skips_none(t) ==
    CASE t = "Cpu" -> "Processes"
      [] t = "Processes" -> "Disks"
      [] t = "Disks" -> "Networks"
      [] t = "Networks" -> "Cpu"
      [] t = "None" -> "Cpu"

SelectedTab_next(t) ==
    CASE t = "Cpu" -> "Processes"
      [] t = "Processes" -> "Disks"
      [] t = "Disks" -> "Networks"
      [] t = "Networks" -> "None"
      [] t = "None" -> "Cpu"

\* faulty variant: going back from Cpu skips None
SelectedTab_prev_skips_none(t) ==
    CASE t = "None" -> "Networks"
      [] t = "Cpu" -> "Networks"
      [] t = "Processes" -> "Cpu"
      [] t = "Disks" -> "Processes"
      [] t = "Networks" -> "Disks"

SelectedTab_prev(t) ==
    CASE t = "None" -> "Networks"
      [] t = "Cpu" -> "None"
      [] t = "Processes" -> "Cpu"
      [] t = "Disks" -> "Processes"
      [] t = "Networks" -> "Disks"

is_cpu(t) == t = "Cpu"
is_processes(t) == t = "Processes"
is_network(t) == t = "Networks"
is_disks(t) == t = "Disks"

(***************************************************************************)
(* ratatui ScrollbarState: the thumb offset (position) and the content     *)
(* length the scrollbar widget is drawn from.                              *)
(***************************************************************************)
ScrollbarState_new(n) == [content_length |-> n, position |-> 0]

(***************************************************************************)
(* struct HorizontalScrollbarState (the CPU viewport)                      *)
(***************************************************************************)
Horizontal_current_pos_scroll_update(s) ==
    IF s.max_scroll = 0
    THEN s
    ELSE [s EXCEPT !.state.position =
                       s.pos * (s.real_content_length \div s.max_scroll)]

Horizontal_scroll_next(s) ==
    IF s.max_scroll = 0
    THEN s
    ELSE Horizontal_current_pos_scroll_update(
             [s EXCEPT !.pos = clamp(saturating_add(s.pos, 1), 0, s.max_scroll)])

Horizontal_scroll_prev(s) ==
    IF s.max_scroll = 0
    THEN s
    ELSE Horizontal_current_pos_scroll_update(
             [s EXCEPT !.pos = saturating_sub(s.pos, 1)])

Horizontal_set_values(s, max_scroll, real_content_length) ==
    [s EXCEPT !.max_scroll = max_scroll,
              !.real_content_length = real_content_length,
              !.state.content_length = real_content_length]

(***************************************************************************)
(* struct VerticalScrollbarState (Processes, Disks, Networks viewports)    *)
(***************************************************************************)
Vertical_current_pos_scroll_update(s) ==
    IF s.max_scroll = 0
    THEN s
    ELSE [s EXCEPT !.state.position = s.pos]

\* faulty variant: no early return when max_scroll is 0
Vertical_scroll_next_unguarded(s) ==
    Vertical_current_pos_scroll_update(
        [s EXCEPT !.pos = clamp(saturating_add(s.pos, 1), 0, s.max_scroll)])

Vertical_scroll_next(s) ==
    IF s.max_scroll = 0
    THEN s
    ELSE Vertical_current_pos_scroll_update(
             [s EXCEPT !.pos = clamp(saturating_add(s.pos, 1), 0, s.max_scroll)])

\* faulty variant: the thumb is refreshed before pos is lowered
Vertical_scroll_prev_stale_thumb(s) ==
    IF s.max_scroll = 0
    THEN s
    ELSE [Vertical_current_pos_scroll_update(s) EXCEPT !.pos = saturating_sub(s.pos, 1)]

Vertical_scroll_prev(s) ==
    IF s.max_scroll = 0
    THEN s
    ELSE Vertical_current_pos_scroll_update(
             [s EXCEPT !.pos = saturating_sub(s.pos, 1)])

Vertical_set_values(s, max_scroll) ==
    [s EXCEPT !.max_scroll = max_scroll,
              !.state.content_length = max_scroll]

(***************************************************************************)
(* enum ProcessColumn, enum SortDirection, Option<(column, direction)>     *)
(***************************************************************************)
ProcessColumn == {"User", "PID", "PPID", "CPU", "Memory", "Time", "Command"}
SortDirection == {"Ascending", "Descending"}
None == <<>>
Some(column, direction) == <<column, direction>>

(***************************************************************************)
(* ratatui Rect and the layout of src/layout.rs.  Layout::split is the     *)
(* rendering toolkit's: a Percentage(p) segment gets p percent of the      *)
(* split extent (rounded down), segments are laid end to end and the last  *)
(* one takes what is left; Length(1) after Min(0) takes the last line.     *)
(***************************************************************************)
Rect(x, y, width, height) == [x |-> x, y |-> y, width |-> width, height |-> height]
Rect_default == Rect(0, 0, 0, 0)

AppLayout_empty ==
    [main_layout |->
        [cpu_plus_memory_layout |->
            [cpu_layout |-> Rect_default,
             memory_layout |-> [ram_layout |-> Rect_default,
                                swap_layout |-> Rect_default]],
         processes_layout |-> Rect_default,
         disk_layout |-> Rect_default,
         network_layout |-> Rect_default],
     footer_area |-> Rect_default]

\* faulty variant: the high edges are inside
is_within_rect_closed(pos, rect) ==
    LET x == pos[1]
        y == pos[2]
    IN  /\ x >= rect.x
        /\ x <= rect.x + rect.width
        /\ y >= rect.y
        /\ y <= rect.y + rect.height

is_within_rect(pos, rect) ==
    LET x == pos[1]
        y == pos[2]
    IN  /\ x >= rect.x
        /\ x < rect.x + rect.width
        /\ y >= rect.y
        /\ y < rect.y + rect.height

\* Rect::inner with a vertical margin of m lines
vertical_margin(r, m) ==
    IF r.height < 2 * m
    THEN Rect_default
    ELSE Rect(r.x, r.y + m, r.width, r.height - 2 * m)

Percent(p, extent) == (p * extent) \div 100

\* faulty variant: the rows are placed without the height of the row above
\* the previous one, so that neighbouring rows share lines
prepare_main_layout_overlapping(inner_area) ==
    LET area == vertical_margin(inner_area, 1)
        h0 == Percent(30, area.height)
        h1 == Percent(30, area.height)
        h2 == Percent(18, area.height)
        h3 == area.height - h0 - h1 - h2
        main0 == Rect(area.x, area.y, area.width, h0)
        main1 == Rect(area.x, area.y + h0, area.width, h1)
        main2 == Rect(area.x, area.y + h0, area.width, h2)
        main3 == Rect(area.x, area.y + h0 + h1, area.width, h3)
        w0 == Percent(50, main0.width)
        cpu == Rect(main0.x, main0.y, w0, main0.height)
        mem == Rect(main0.x + w0, main0.y, main0.width - w0, main0.height)
        m0 == Percent(50, mem.height)
    IN  [cpu_plus_memory_layout |->
            [cpu_layout |-> cpu,
             memory_layout |->
                [ram_layout |-> Rect(mem.x, mem.y, mem.width, m0),
                 swap_layout |-> Rect(mem.x, mem.y + m0, mem.width, mem.height - m0)]],
         processes_layout |-> main1,
         disk_layout |-> main2,
         network_layout |-> main3]

prepare_main_layout(inner_area) ==
    LET area == vertical_margin(inner_area, 1)
        h0 == Percent(30, area.height)
        h1 == Percent(30, area.height)
        h2 == Percent(18, area.height)
        h3 == area.height - h0 - h1 - h2
        main0 == Rect(area.x, area.y, area.width, h0)
        main1 == Rect(area.x, area.y + h0, area.width, h1)
        main2 == Rect(area.x, area.y + h0 + h1, area.width, h2)
        main3 == Rect(area.x, area.y + h0 + h1 + h2, area.width, h3)
        w0 == Percent(50, main0.width)
        cpu == Rect(main0.x, main0.y, w0, main0.height)
        mem == Rect(main0.x + w0, main0.y, main0.width - w0, main0.height)
        m0 == Percent(50, mem.height)
    IN  [cpu_plus_memory_layout |->
            [cpu_layout |-> cpu,
             memory_layout |->
                [ram_layout |-> Rect(mem.x, mem.y, mem.width, m0),
                 swap_layout |-> Rect(mem.x, mem.y + m0, mem.width, mem.height - m0)]],
         processes_layout |-> main1,
         disk_layout |-> main2,
         network_layout |-> main3]

\* size is f.size(): <<width, height>> of the terminal
prepare_layout(size) ==
    LET footer == Min(1, size[2])
        main_area == Rect(0, 0, size[1], size[2] - footer)
        footer_area == Rect(0, size[2] - footer, size[1], footer)
    IN  [main_layout |-> prepare_main_layout(main_area),
         footer_area |-> footer_area]

(***************************************************************************)
(* Inputs of a redraw: the terminal size and the metrics snapshot.  Every  *)
(* terminal size below gives each line-based panel a height of at least 2. *)
(***************************************************************************)
TermSizes == {<<80, 24>>, <<80, 27>>}

Snapshots ==
    {[processes |-> 1, disks |-> 1, networks |-> 1],
     [processes |-> MaxProcesses, disks |-> MaxDisks, networks |-> MaxNetworks]}

\* let visible_lines = layout_height - 2 on usize: for a height below 2 the
\* subtraction overflows.  A build with overflow checks panics there (see
\* DrawPanics); a build without them wraps the difference to
\* 2^64 - 2 + layout_height, which is above every item count, so that
\* all_lines_count.saturating_sub(visible_lines) is 0.
Underflows(layout_height) == layout_height < 2

\* the widget builders: only max_scroll flows back into the dispatcher
create_processes_table(s, layout_height) ==
    IF Underflows(layout_height)
    THEN [max_scroll |-> 0]
    ELSE LET visible_lines == layout_height - 2
         IN  [max_scroll |-> saturating_sub(s.processes, visible_lines)]

create_disks_widget(s, layout_height) ==
    IF Underflows(layout_height)
    THEN [max_scroll |-> 0]
    ELSE LET visible_lines == layout_height - 2
         IN  [max_scroll |-> saturating_sub(s.disks, visible_lines)]

create_networks_widget(s, layout_height) ==
    IF Underflows(layout_height)
    THEN [max_scroll |-> 0]
    ELSE LET visible_lines == layout_height - 2
         IN  [max_scroll |-> saturating_sub(s.networks, visible_lines)]

\* create_cpu_barchart (its source is not among the files): the scroll
\* bound and rendered content length the CPU bar chart builder can return
MaxCpuContent == 9
CpuBarcharts ==
    [max_scroll : 0..MaxCpuScroll, real_content_length : {MaxCpuContent}]

(***************************************************************************)
(* The builders of the CPU details bar chart: create_details_cpu_barchart  *)
(* (src/cpu.rs) and render_cpu_details_tab (src/ui.rs).  Nothing in        *)
(* src/app.rs calls them.  Both end with                                   *)
(*     let content_length = sys.cpus().len() - visible_bars as usize;      *)
(* a usize subtraction.  When it overflows, a build with overflow checks   *)
(* panics and a build without them returns the difference wrapped, that is *)
(* 2^64 less the shortfall: the outcomes are kept apart by kind, the       *)
(* wrapped one with its shortfall, since 2^64 is beyond the integers of    *)
(* the checker.                                                            *)
(***************************************************************************)
usize_sub(a, b) ==
    IF a >= b
    THEN {[kind |-> "value", value |-> a - b]}
    ELSE {[kind |-> "panic"], [kind |-> "wrapped", shortfall |-> b - a]}

\* layout_height.saturating_sub(2) / (bar_width + bar_gap)
visible_bars(layout_height, bar_width, bar_gap) ==
    saturating_sub(layout_height, 2) \div (bar_width + bar_gap)

\* the content_length create_details_cpu_barchart returns for a system of
\* cpus CPUs
create_details_cpu_barchart(cpus, layout_height) ==
    usize_sub(cpus, visible_bars(layout_height, 3, 1))

\* the content_length render_cpu_details_tab returns
render_cpu_details_tab(cpus, layout_height) ==
    usize_sub(cpus, visible_bars(layout_height, 5, 1))

\* no builder of the CPU details chart has been called
NoResult == [kind |-> "none"]
Details_new == [builder |-> "none", cpus |-> 0, layout_height |-> 0, result |-> NoResult]

(***************************************************************************)
(* enum InputMessage                                                       *)
(***************************************************************************)
KeyPress(code) == [type |-> "KeyPress", code |-> code]
MouseScroll(direction) == [type |-> "MouseScroll", direction |-> direction]
MouseMoved(position) == [type |-> "MouseMoved", position |-> position]
Quit == [type |-> "Quit"]

MouseScrollDirection == {"Up", "Down", "Left", "Right"}

(***************************************************************************)
(* impl App                                                                *)
(***************************************************************************)
\* faulty variant: the Processes viewport starts with a scroll bound
App_new_scrollable ==
    [state |-> "Running",
     layout_clone |-> AppLayout_empty,
     selected_tab |-> "None",
     cpu_scrollbar_state |->
        [state |-> ScrollbarState_new(0), pos |-> 0, max_scroll |-> 0,
         real_content_length |-> 0],
     processes_scrollbar_state |->
        [state |-> ScrollbarState_new(1), pos |-> 0, max_scroll |-> 1],
     process_sort_state |-> None,
     disks_scrollbar_state |->
        [state |-> ScrollbarState_new(0), pos |-> 0, max_scroll |-> 0],
     networks_scrollbar_state |->
        [state |-> ScrollbarState_new(0), pos |-> 0, max_scroll |-> 0]]

App_new ==
    [state |-> "Running",
     layout_clone |-> AppLayout_empty,
     selected_tab |-> "None",
     cpu_scrollbar_state |->
        [state |-> ScrollbarState_new(0), pos |-> 0, max_scroll |-> 0,
         real_content_length |-> 0],
     processes_scrollbar_state |->
        [state |-> ScrollbarState_new(0), pos |-> 0, max_scroll |-> 0],
     process_sort_state |-> None,
     disks_scrollbar_state |->
        [state |-> ScrollbarState_new(0), pos |-> 0, max_scroll |-> 0],
     networks_scrollbar_state |->
        [state |-> ScrollbarState_new(0), pos |-> 0, max_scroll |-> 0]]

\* faulty variant: Descending goes back to Ascending, the sort is never cleared
toggle_sort_column_two_state(a, column) ==
    IF a.process_sort_state # None /\ a.process_sort_state[1] = column
    THEN IF a.process_sort_state[2] = "Ascending"
         THEN [a EXCEPT !.process_sort_state = Some(column, "Descending")]
         ELSE [a EXCEPT !.process_sort_state = Some(column, "Ascending")]
    ELSE [a EXCEPT !.process_sort_state = Some(column, "Ascending")]

\* faulty variant: a column not sorted by is first sorted Descending
toggle_sort_column_descending_first(a, column) ==
    IF a.process_sort_state # None /\ a.process_sort_state[1] = column
    THEN IF a.process_sort_state[2] = "Descending"
         THEN [a EXCEPT !.process_sort_state = Some(column, "Ascending")]
         ELSE [a EXCEPT !.process_sort_state = None]
    ELSE [a EXCEPT !.process_sort_state = Some(column, "Descending")]

toggle_sort_column(a, column) ==
    IF a.process_sort_state # None /\ a.process_sort_state[1] = column
    THEN IF a.process_sort_state[2] = "Ascending"
         THEN [a EXCEPT !.process_sort_state = Some(column, "Descending")]
         ELSE [a EXCEPT !.process_sort_state = None]
    ELSE [a EXCEPT !.process_sort_state = Some(column, "Ascending")]

\* faulty variant: a pointer outside every panel leaves the focus alone
handle_mouse_moved_keeps_focus(a, position) ==
    IF is_within_rect(position, a.layout_clone.main_layout.cpu_plus_memory_layout.cpu_layout)
    THEN [a EXCEPT !.selected_tab = "Cpu"]
    ELSE IF is_within_rect(position, a.layout_clone.main_layout.processes_layout)
    THEN [a EXCEPT !.selected_tab = "Processes"]
    ELSE IF is_within_rect(position, a.layout_clone.main_layout.disk_layout)
    THEN [a EXCEPT !.selected_tab = "Disks"]
    ELSE IF is_within_rect(position, a.layout_clone.main_layout.network_layout)
    THEN [a EXCEPT !.selected_tab = "Networks"]
    ELSE a

handle_mouse_moved(a, position) ==
    IF is_within_rect(position, a.layout_clone.main_layout.cpu_plus_memory_layout.cpu_layout)
    THEN [a EXCEPT !.selected_tab = "Cpu"]
    ELSE IF is_within_rect(position, a.layout_clone.main_layout.processes_layout)
    THEN [a EXCEPT !.selected_tab = "Processes"]
    ELSE IF is_within_rect(position, a.layout_clone.main_layout.disk_layout)
    THEN [a EXCEPT !.selected_tab = "Disks"]
    ELSE IF is_within_rect(position, a.layout_clone.main_layout.network_layout)
    THEN [a EXCEPT !.selected_tab = "Networks"]
    ELSE [a EXCEPT !.selected_tab = "None"]

scroll_right(a) ==
    IF is_cpu(a.selected_tab)
    THEN [a EXCEPT !.cpu_scrollbar_state = Horizontal_scroll_next(@)]
    ELSE a

\* faulty variant: the CPU viewport scrolls whatever the focus is
scroll_left_unguarded(a) ==
    [a EXCEPT !.cpu_scrollbar_state = Horizontal_scroll_prev(@)]

scroll_left(a) ==
    IF is_cpu(a.selected_tab)
    THEN [a EXCEPT !.cpu_scrollbar_state = Horizontal_scroll_prev(@)]
    ELSE a

\* faulty variant: with Disks focused the processes viewport is scrolled
scroll_down_wrong_panel(a) ==
    IF is_processes(a.selected_tab)
    THEN [a EXCEPT !.processes_scrollbar_state = Vertical_scroll_next(@)]
    ELSE IF is_disks(a.selected_tab)
    THEN [a EXCEPT !.processes_scrollbar_state = Vertical_scroll_next(@)]
    ELSE IF is_network(a.selected_tab)
    THEN [a EXCEPT !.networks_scrollbar_state = Vertical_scroll_next(@)]
    ELSE a

scroll_down(a) ==
    IF is_processes(a.selected_tab)
    THEN [a EXCEPT !.processes_scrollbar_state = Vertical_scroll_next(@)]
    ELSE IF is_disks(a.selected_tab)
    THEN [a EXCEPT !.disks_scrollbar_state = Vertical_scroll_next(@)]
    ELSE IF is_network(a.selected_tab)
    THEN [a EXCEPT !.networks_scrollbar_state = Vertical_scroll_next(@)]
    ELSE a

scroll_up(a) ==
    IF is_processes(a.selected_tab)
    THEN [a EXCEPT !.processes_scrollbar_state = Vertical_scroll_prev(@)]
    ELSE IF is_disks(a.selected_tab)
    THEN [a EXCEPT !.disks_scrollbar_state = Vertical_scroll_prev(@)]
    ELSE IF is_network(a.selected_tab)
    THEN [a EXCEPT !.networks_scrollbar_state = Vertical_scroll_prev(@)]
    ELSE a

\* faulty variant: moving the focus on clears the sort state
next_tab_clears_sort(a) ==
    [a EXCEPT !.selected_tab = SelectedTab_next(@),
              !.process_sort_state = None]

next_tab(a) == [a EXCEPT !.selected_tab = SelectedTab_next(@)]

prev_tab(a) == [a EXCEPT !.selected_tab = SelectedTab_prev(@)]

quit(a) == [a EXCEPT !.state = "Exiting"]

\* the column a digit key toggles
DigitColumn(code) ==
    CASE code = "1" -> "User"
      [] code = "2" -> "PID"
      [] code = "3" -> "PPID"
      [] code = "4" -> "CPU"
      [] code = "5" -> "Memory"
      [] code = "6" -> "Time"
      [] code = "7" -> "Command"

\* faulty variant: a key without an arm of its own quits
handle_key_quits_on_unbound(a, code) ==
    IF code \in {"l", "Right"} THEN scroll_right(a)
    ELSE IF code \in {"h", "Left"} THEN scroll_left(a)
    ELSE IF code \in {"j", "Down"} THEN scroll_down(a)
    ELSE IF code \in {"k", "Up"} THEN scroll_up(a)
    ELSE IF code = "Tab" THEN next_tab(a)
    ELSE IF code = "BackTab" THEN prev_tab(a)
    ELSE IF code \in {"1", "2", "3", "4", "5", "6", "7"} /\ is_processes(a.selected_tab)
    THEN toggle_sort_column(a, DigitColumn(code))
    ELSE IF code = "r" /\ is_processes(a.selected_tab)
    THEN [a EXCEPT !.process_sort_state = None]
    ELSE quit(a)

\* faulty variant: 'r' has no arm of its own and falls through to _ => {}
handle_key_without_reset(a, code) ==
    IF code \in {"l", "Right"} THEN scroll_right(a)
    ELSE IF code \in {"h", "Left"} THEN scroll_left(a)
    ELSE IF code \in {"j", "Down"} THEN scroll_down(a)
    ELSE IF code \in {"k", "Up"} THEN scroll_up(a)
    ELSE IF code = "Tab" THEN next_tab(a)
    ELSE IF code = "BackTab" THEN prev_tab(a)
    ELSE IF code \in {"1", "2", "3", "4", "5", "6", "7"} /\ is_processes(a.selected_tab)
    THEN toggle_sort_column(a, DigitColumn(code))
    ELSE a

\* faulty variant: the digit arms have no focus guard
handle_key_unguarded_digits(a, code) ==
    IF code \in {"l", "Right"} THEN scroll_right(a)
    ELSE IF code \in {"h", "Left"} THEN scroll_left(a)
    ELSE IF code \in {"j", "Down"} THEN scroll_down(a)
    ELSE IF code \in {"k", "Up"} THEN scroll_up(a)
    ELSE IF code = "Tab" THEN next_tab(a)
    ELSE IF code = "BackTab" THEN prev_tab(a)
    ELSE IF code \in {"1", "2", "3", "4", "5", "6", "7"}
    THEN toggle_sort_column(a, DigitColumn(code))
    ELSE IF code = "r" /\ is_processes(a.selected_tab)
    THEN [a EXCEPT !.process_sort_state = None]
    ELSE a

handle_key(a, code) ==
    IF code \in {"l", "Right"} THEN scroll_right(a)
    ELSE IF code \in {"h", "Left"} THEN scroll_left(a)
    ELSE IF code \in {"j", "Down"} THEN scroll_down(a)
    ELSE IF code \in {"k", "Up"} THEN scroll_up(a)
    ELSE IF code = "Tab" THEN next_tab(a)
    ELSE IF code = "BackTab" THEN prev_tab(a)
    ELSE IF code \in {"1", "2", "3", "4", "5", "6", "7"} /\ is_processes(a.selected_tab)
    THEN toggle_sort_column(a, DigitColumn(code))
    ELSE IF code = "r" /\ is_processes(a.selected_tab)
    THEN [a EXCEPT !.process_sort_state = None]
    ELSE a

\* faulty variant: the vertical wheel directions are exchanged
handle_events_wheel_inverted(a, message) ==
    CASE message.type = "KeyPress" -> handle_key(a, message.code)
      [] message.type = "MouseScroll" ->
            (CASE message.direction = "Up" -> scroll_down(a)
               [] message.direction = "Down" -> scroll_up(a)
               [] message.direction = "Left" -> scroll_left(a)
               [] message.direction = "Right" -> scroll_right(a))
      [] message.type = "MouseMoved" -> handle_mouse_moved(a, message.position)
      [] message.type = "Quit" -> quit(a)

handle_events(a, message) ==
    CASE message.type = "KeyPress" -> handle_key(a, message.code)
      [] message.type = "MouseScroll" ->
            (CASE message.direction = "Up" -> scroll_up(a)
               [] message.direction = "Down" -> scroll_down(a)
               [] message.direction = "Left" -> scroll_left(a)
               [] message.direction = "Right" -> scroll_right(a))
      [] message.type = "MouseMoved" -> handle_mouse_moved(a, message.position)
      [] message.type = "Quit" -> quit(a)

\* faulty variant: the correction snaps pos to the new max_scroll
render_cpu_snaps(a, cpu_barchart) ==
    LET s0 == a.cpu_scrollbar_state
        s1 == IF s0.pos = s0.max_scroll /\ cpu_barchart.max_scroll < s0.max_scroll
              THEN [s0 EXCEPT !.pos = cpu_barchart.max_scroll]
              ELSE s0
        s2 == Horizontal_set_values(s1, cpu_barchart.max_scroll,
                                    cpu_barchart.real_content_length)
    IN  [a EXCEPT !.cpu_scrollbar_state = Horizontal_current_pos_scroll_update(s2)]

render_cpu(a, cpu_barchart) ==
    LET s0 == a.cpu_scrollbar_state
        s1 == IF s0.pos = s0.max_scroll /\ cpu_barchart.max_scroll < s0.max_scroll
              THEN [s0 EXCEPT !.pos = saturating_sub(s0.pos, 1)]
              ELSE s0
        s2 == Horizontal_set_values(s1, cpu_barchart.max_scroll,
                                    cpu_barchart.real_content_length)
    IN  [a EXCEPT !.cpu_scrollbar_state = Horizontal_current_pos_scroll_update(s2)]

\* faulty variant: a redraw of the processes table clears the sort state
render_processes_clears_sort(a, s, processes_layout) ==
    LET processes_table == create_processes_table(s, processes_layout.height)
    IN  [a EXCEPT !.processes_scrollbar_state =
                      Vertical_current_pos_scroll_update(
                          Vertical_set_values(@, processes_table.max_scroll)),
                  !.process_sort_state = None]

render_processes(a, s, processes_layout) ==
    LET processes_table == create_processes_table(s, processes_layout.height)
    IN  [a EXCEPT !.processes_scrollbar_state =
            Vertical_current_pos_scroll_update(
                Vertical_set_values(@, processes_table.max_scroll))]

\* after set_values on the disks viewport the code refreshes the thumb of
\* the processes viewport (app.rs line 501)
render_disks(a, s, disks_layout) ==
    LET disk_widget == create_disks_widget(s, disks_layout.height)
    IN  [a EXCEPT !.disks_scrollbar_state = Vertical_set_values(@, disk_widget.max_scroll),
                  !.processes_scrollbar_state = Vertical_current_pos_scroll_update(@)]

render_networks(a, s, network_layout) ==
    LET network_widget == create_networks_widget(s, network_layout.height)
    IN  [a EXCEPT !.networks_scrollbar_state =
            Vertical_current_pos_scroll_update(
                Vertical_set_values(@, network_widget.max_scroll))]

render_main_layout(a, s, app_layout, cpu_barchart) ==
    LET a1 == render_cpu(a, cpu_barchart)
        a2 == render_processes(a1, s, app_layout.main_layout.processes_layout)
        a3 == render_disks(a2, s, app_layout.main_layout.disk_layout)
    IN  render_networks(a3, s, app_layout.main_layout.network_layout)

\* faulty variant: the layout is cached by the first redraw only
draw_caches_once(a, s, size, cpu_barchart) ==
    LET layout == prepare_layout(size)
        cached == IF a.layout_clone = AppLayout_empty THEN layout ELSE a.layout_clone
    IN  render_main_layout([a EXCEPT !.layout_clone = cached], s, layout, cpu_barchart)

draw(a, s, size, cpu_barchart) ==
    LET layout == prepare_layout(size)
    IN  render_main_layout([a EXCEPT !.layout_clone = layout], s, layout, cpu_barchart)

(***************************************************************************)
(* Input alphabet: the key codes with an arm of their own in               *)
(* handle_events, one key without ("x"), and a few pointer positions.      *)
(***************************************************************************)
ScrollNextKeys == {"l", "Right", "j", "Down"}
ScrollPrevKeys == {"h", "Left", "k", "Up"}
TabKeys == {"Tab", "BackTab"}
SortKeys == {"1", "2", "3", "4", "5", "6", "7", "r"}
Positions == {<<10, 3>>, <<10, 9>>, <<10, 14>>, <<10, 20>>, <<60, 3>>}

\* read_input_events before its first event::read()
NoEvent == [type |-> "NoEvent"]
NoMessage == [type |-> "NoMessage"]
Input_new == [pc |-> "read", event |-> NoEvent, msg |-> NoMessage]

InitEvent == [type |-> "Init"]
RefreshEvent == [type |-> "RefreshTick"]
DrawEvent == [type |-> "DrawTick"]

(***************************************************************************)
(* App::run: one iteration of the while loop services one branch of the    *)
(* select!.                                                                *)
(***************************************************************************)
\* faulty variant: the loop condition is not tested
Running_forever == TRUE

\* App::run is in its loop and the loop condition holds
Running == app.state = "Running" /\ run = "loop"

\* Some(message) = rx.recv() => self.handle_events(&message), for a message
\* that read_input_events sent into the empty channel
Recv(message) ==
    /\ Running
    /\ app' = handle_events(app, message)
    /\ last' = message
    /\ UNCHANGED <<sys, queue, input, run, details>>

\* faulty variant: a biased select! that polls the channel first
RefreshTick_when_idle ==
    /\ Running
    /\ queue = <<>>
    /\ \E s \in Snapshots : sys' = s
    /\ last' = RefreshEvent
    /\ UNCHANGED <<app, calls, queue, input, run, details>>

\* refresh_ticker.tick() => sys.refresh_all()
RefreshTick ==
    /\ Running
    /\ \E s \in Snapshots : sys' = s
    /\ last' = RefreshEvent
    /\ UNCHANGED <<app, calls, queue, input, run, details>>

\* faulty variant: the frame is drawn from the snapshot of startup
DrawTick_stale_snapshot ==
    /\ Running
    /\ \E size \in TermSizes, cpu_barchart \in CpuBarcharts :
          app' = draw(app, [processes |-> 1, disks |-> 1, networks |-> 1],
                      size, cpu_barchart)
    /\ last' = DrawEvent
    /\ UNCHANGED <<sys, calls, queue, input, run, details>>

\* draw_ticker.tick() => terminal.draw(|frame| self.draw(frame, sys))
DrawTick ==
    /\ Running
    /\ \E size \in TermSizes, cpu_barchart \in CpuBarcharts :
          app' = draw(app, sys, size, cpu_barchart)
    /\ last' = DrawEvent
    /\ UNCHANGED <<sys, calls, queue, input, run, details>>

\* Spec: the dispatcher with the viewport, focus and quit inputs
DispatchKeys == ScrollNextKeys \cup ScrollPrevKeys \cup TabKeys \cup {"x"}

RecvKeyPress ==
    /\ \E code \in DispatchKeys : Recv(KeyPress(code))
    /\ UNCHANGED calls

RecvMouseScroll ==
    /\ \E direction \in MouseScrollDirection : Recv(MouseScroll(direction))
    /\ UNCHANGED calls

RecvMouseMoved ==
    /\ \E position \in Positions : Recv(MouseMoved(position))
    /\ UNCHANGED calls

RecvQuit ==
    /\ Recv(Quit)
    /\ UNCHANGED calls

Init ==
    /\ app = App_new
    /\ sys \in Snapshots
    /\ last = InitEvent
    /\ calls = 0
    /\ queue = <<>>
    /\ input = Input_new
    /\ run = "loop"
    /\ details = Details_new

Next ==
    \/ RefreshTick
    \/ DrawTick
    \/ RecvKeyPress
    \/ RecvMouseScroll
    \/ RecvMouseMoved
    \/ RecvQuit

Spec == Init /\ [][Next]_vars

(***************************************************************************)
(* SpecSort: the dispatcher with the focus and sort keys only (no redraw,  *)
(* so the viewports keep their initial bounds).                            *)
(***************************************************************************)
RecvTabKey ==
    /\ \E code \in TabKeys : Recv(KeyPress(code))
    /\ UNCHANGED calls

RecvSortKey ==
    /\ \E code \in SortKeys : Recv(KeyPress(code))
    /\ UNCHANGED calls

NextSort ==
    \/ RecvTabKey
    \/ RecvSortKey
    \/ RecvQuit

SpecSort == Init /\ [][NextSort]_vars

(***************************************************************************)
(* SpecTab: Tab presses, counted in calls, between refresh and redraw      *)
(* ticks.                                                                  *)
(***************************************************************************)
RecvTab ==
    /\ calls < MaxCalls
    /\ Recv(KeyPress("Tab"))
    /\ calls' = calls + 1

NextTab ==
    \/ RecvTab
    \/ RefreshTick
    \/ DrawTick

SpecTab == Init /\ [][NextTab]_vars

(***************************************************************************)
(* SpecScroll: scroll messages on viewports whose bounds are held fixed    *)
(* (no redraw).  A run starts with every viewport at position p with       *)
(* scroll bound n, for any p and n up to MaxPos: a redraw that lowers      *)
(* max_scroll leaves such states behind, also with p > n.  The cached      *)
(* layout is the one of an 80x24 terminal.                                 *)
(***************************************************************************)
MaxPos == 3

VerticalAt(p, n) ==
    [state |-> [content_length |-> n, position |-> p], pos |-> p, max_scroll |-> n]

\* the thumb of the CPU viewport was last written while max_scroll was not 0
HorizontalAt(p, n) ==
    [state |-> [content_length |-> MaxCpuContent,
                position |-> IF n > 0 THEN p * (MaxCpuContent \div n)
                             ELSE IF p = 1 THEN MaxCpuContent \div 2
                             ELSE p * MaxCpuContent],
     pos |-> p, max_scroll |-> n, real_content_length |-> MaxCpuContent]

AppAt(tab, p, n) ==
    [App_new EXCEPT !.selected_tab = tab,
                    !.layout_clone = prepare_layout(<<80, 24>>),
                    !.cpu_scrollbar_state = HorizontalAt(p, n),
                    !.processes_scrollbar_state = VerticalAt(p, n),
                    !.disks_scrollbar_state = VerticalAt(p, n),
                    !.networks_scrollbar_state = VerticalAt(p, n)]

InitScroll ==
    /\ \E tab \in SelectedTab, p \in 0..MaxPos, n \in 0..MaxPos : app = AppAt(tab, p, n)
    /\ sys \in Snapshots
    /\ last = InitEvent
    /\ calls = 0
    /\ queue = <<>>
    /\ input = Input_new
    /\ run = "loop"
    /\ details = Details_new

RecvScrollKey ==
    /\ \E code \in ScrollNextKeys \cup ScrollPrevKeys : Recv(KeyPress(code))
    /\ UNCHANGED calls

NextScroll ==
    \/ RecvScrollKey
    \/ RecvMouseScroll

SpecScroll == InitScroll /\ [][NextScroll]_vars

(***************************************************************************)
(* SpecScrollNext: consecutive scroll_next calls on the focused viewport,  *)
(* counted in calls, from position 0 with a fixed scroll bound.            *)
(***************************************************************************)
\* the messages whose handler reaches scroll_next / scroll_prev of the
\* viewport of the focused panel
ScrollNextMessages(tab) ==
    IF tab = "Cpu"
    THEN {KeyPress("l"), KeyPress("Right"), MouseScroll("Right")}
    ELSE IF tab \in {"Processes", "Disks", "Networks"}
    THEN {KeyPress("j"), KeyPress("Down"), MouseScroll("Down")}
    ELSE {}

ScrollPrevMessages(tab) ==
    IF tab = "Cpu"
    THEN {KeyPress("h"), KeyPress("Left"), MouseScroll("Left")}
    ELSE IF tab \in {"Processes", "Disks", "Networks"}
    THEN {KeyPress("k"), KeyPress("Up"), MouseScroll("Up")}
    ELSE {}

InitScrollNext ==
    /\ \E tab \in SelectedTab \ {"None"}, n \in 0..MaxBound : app = AppAt(tab, 0, n)
    /\ sys \in Snapshots
    /\ last = InitEvent
    /\ calls = 0
    /\ queue = <<>>
    /\ input = Input_new
    /\ run = "loop"
    /\ details = Details_new

RecvScrollNext ==
    /\ calls < MaxCalls
    /\ \E message \in ScrollNextMessages(app.selected_tab) : Recv(message)
    /\ calls' = calls + 1

NextScrollNext == RecvScrollNext

SpecScrollNext == InitScrollNext /\ [][NextScrollNext]_vars

(***************************************************************************)
(* read_input_events and the channel.  A raw terminal event is a key       *)
(* event (code, kind, set of modifiers), a mouse event (kind, column,      *)
(* row), another event (resize, focus change) or a failed event::read().   *)
(* One step of the loop reads an event and builds its message; a second    *)
(* one, tx.send(msg).await, completes when the channel has room.  The      *)
(* receiver lives until App::run returns, so the send does not fail while  *)
(* the dispatcher is in its loop.                                          *)
(*                                                                         *)
(* event::read() is a blocking call, not an await: the task is at an       *)
(* await only in tx.send(msg).await.  JoinHandle::abort() stops a task at  *)
(* the await it is suspended at; a task that is running is stopped when    *)
(* it next yields.  After App::run has returned, a task at its send is     *)
(* either stopped there by the abort, or its send completes with an error  *)
(* (the receiver is gone) and it returns.                                  *)
(***************************************************************************)
ChannelCapacity == 10

Key(code, kind, modifiers) ==
    [type |-> "Key", code |-> code, kind |-> kind, modifiers |-> modifiers]
Mouse(kind, column, row) ==
    [type |-> "Mouse", kind |-> kind, column |-> column, row |-> row]
ReadErr == [type |-> "Err"]
Resize == [type |-> "Resize"]

\* faulty variant: Ctrl+C is recognised by any modifier set that contains
\* CONTROL
event_msg_contains_control(event) ==
    IF event.type = "Key"
    THEN IF event.kind = "Press"
         THEN IF event.code \in {"q", "Esc"}
              THEN Quit
              ELSE IF event.code = "c" /\ "CONTROL" \in event.modifiers
              THEN Quit
              ELSE KeyPress(event.code)
         ELSE NoMessage
    ELSE IF event.type = "Mouse"
    THEN CASE event.kind = "ScrollDown" -> MouseScroll("Down")
           [] event.kind = "ScrollUp" -> MouseScroll("Up")
           [] event.kind = "ScrollLeft" -> MouseScroll("Left")
           [] event.kind = "ScrollRight" -> MouseScroll("Right")
           [] event.kind = "Moved" -> MouseMoved(<<event.column, event.row>>)
           [] OTHER -> NoMessage
    ELSE NoMessage

\* the message read_input_events builds for an event, NoMessage when it
\* sends nothing
event_msg(event) ==
    IF event.type = "Key"
    THEN IF event.kind = "Press"
         THEN IF event.code \in {"q", "Esc"}
              THEN Quit
              ELSE IF event.code = "c"
              THEN IF event.modifiers = {"CONTROL"}
                   THEN Quit
                   ELSE KeyPress(event.code)
              ELSE KeyPress(event.code)
         ELSE NoMessage
    ELSE IF event.type = "Mouse"
    THEN CASE event.kind = "ScrollDown" -> MouseScroll("Down")
           [] event.kind = "ScrollUp" -> MouseScroll("Up")
           [] event.kind = "ScrollLeft" -> MouseScroll("Left")
           [] event.kind = "ScrollRight" -> MouseScroll("Right")
           [] event.kind = "Moved" -> MouseMoved(<<event.column, event.row>>)
           [] OTHER -> NoMessage
    ELSE NoMessage

\* number of raw events read in a run of SpecCapture and SpecQuit
MaxEvents == 3

\* faulty variant: on an event that gives Quit the task sets the
\* application state itself
ReadEvents_quits_directly(events, bound) ==
    /\ input.pc = "read"
    /\ calls < bound
    /\ \E event \in events :
          /\ input' = [pc |-> IF event_msg(event) = NoMessage THEN "read" ELSE "send",
                       event |-> event,
                       msg |-> event_msg(event)]
          /\ app' = IF event_msg(event) = Quit THEN quit(app) ELSE app
    /\ calls' = calls + 1
    /\ UNCHANGED <<sys, last, queue, run, details>>

\* if let Ok(event) = event::read() { match event { ... } }, for at most
\* bound events of a run
ReadEvents(events, bound) ==
    /\ input.pc = "read"
    /\ calls < bound
    /\ \E event \in events :
          input' = [pc |-> IF event_msg(event) = NoMessage THEN "read" ELSE "send",
                    event |-> event,
                    msg |-> event_msg(event)]
    /\ calls' = calls + 1
    /\ UNCHANGED <<app, sys, last, queue, run, details>>

ReadEvent(events) == ReadEvents(events, MaxEvents)

\* faulty variant: a message that finds the channel full is given up
\* (try_send instead of send().await)
SendMessage_gives_up_when_full ==
    /\ input.pc = "send"
    /\ run = "loop"
    /\ queue' = IF Len(queue) < ChannelCapacity THEN Append(queue, input.msg) ELSE queue
    /\ input' = [input EXCEPT !.pc = "read"]
    /\ UNCHANGED <<app, sys, last, calls, run, details>>

\* tx.send(msg).await, the receiver alive
SendMessage ==
    /\ input.pc = "send"
    /\ run = "loop"
    /\ Len(queue) < ChannelCapacity
    /\ queue' = Append(queue, input.msg)
    /\ input' = [input EXCEPT !.pc = "read"]
    /\ UNCHANGED <<app, sys, last, calls, run, details>>

\* faulty variant: the loop body handles every message that is queued
RECURSIVE handle_all(_, _)
handle_all(a, messages) ==
    IF messages = <<>>
    THEN a
    ELSE handle_all(handle_events(a, Head(messages)), Tail(messages))

RecvQueued_drains ==
    /\ Running
    /\ queue # <<>>
    /\ app' = handle_all(app, queue)
    /\ last' = queue[Len(queue)]
    /\ queue' = <<>>
    /\ UNCHANGED <<sys, calls, input, run, details>>

\* faulty variant: the message sent last is received first
RecvQueued_newest_first ==
    /\ Running
    /\ queue # <<>>
    /\ app' = handle_events(app, queue[Len(queue)])
    /\ last' = queue[Len(queue)]
    /\ queue' = SubSeq(queue, 1, Len(queue) - 1)
    /\ UNCHANGED <<sys, calls, input, run, details>>

\* Some(message) = rx.recv() => self.handle_events(&message)
RecvQueued ==
    /\ Running
    /\ queue # <<>>
    /\ app' = handle_events(app, Head(queue))
    /\ last' = Head(queue)
    /\ queue' = Tail(queue)
    /\ UNCHANGED <<sys, calls, input, run, details>>

\* faulty variant: the result of the send is ignored and the loop goes on
SendFails_goes_on ==
    /\ input.pc = "send"
    /\ run = "returned"
    /\ input' = [input EXCEPT !.pc = "read"]
    /\ UNCHANGED <<app, sys, last, calls, queue, run, details>>

\* if tx.send(msg).await.is_err() { return; }
SendFails ==
    /\ input.pc = "send"
    /\ run = "returned"
    /\ input' = [input EXCEPT !.pc = "returned"]
    /\ UNCHANGED <<app, sys, last, calls, queue, run, details>>

\* the aborted task is dropped at tx.send(msg).await
Cancelled ==
    /\ input.pc = "send"
    /\ run = "returned"
    /\ input' = [input EXCEPT !.pc = "aborted"]
    /\ UNCHANGED <<app, sys, last, calls, queue, run, details>>

\* the while condition fails: input_handler.abort(); Ok(())
Exit ==
    /\ run = "loop"
    /\ app.state = "Exiting"
    /\ run' = "returned"
    /\ UNCHANGED <<app, sys, last, calls, queue, input, details>>

(***************************************************************************)
(* SpecCapture: read_input_events on every kind of raw event, and the      *)
(* dispatcher receiving what it sends.                                     *)
(***************************************************************************)
RawEvents ==
    {Key("q", "Press", {}), Key("q", "Release", {}), Key("Esc", "Press", {}),
     Key("c", "Press", {"CONTROL"}), Key("c", "Press", {}),
     Key("c", "Press", {"CONTROL", "ALT"}),
     Key("j", "Press", {}), Key("j", "Release", {}), Key("Tab", "Repeat", {}),
     Key("Tab", "Press", {}),
     Mouse("ScrollDown", 10, 9), Mouse("ScrollUp", 10, 9),
     Mouse("ScrollLeft", 10, 9), Mouse("ScrollRight", 10, 9),
     Mouse("Moved", 10, 9), Mouse("Down", 10, 9), Mouse("Drag", 10, 9),
     Resize, ReadErr}

ReadRawEvent == ReadEvent(RawEvents)

NextCapture ==
    \/ ReadRawEvent
    \/ SendMessage
    \/ RecvQueued

SpecCapture == Init /\ [][NextCapture]_vars

(***************************************************************************)
(* SpecFull: a burst of Tab presses, more than the channel holds, read     *)
(* while the dispatcher receives at its own pace.                          *)
(***************************************************************************)
MaxBurst == 12

BurstEvents == {Key("Tab", "Press", {})}

ReadBurstEvent == ReadEvents(BurstEvents, MaxBurst)

NextFull ==
    \/ ReadBurstEvent
    \/ SendMessage
    \/ RecvQueued

SpecFull == Init /\ [][NextFull]_vars

(***************************************************************************)
(* SpecQuit: App::run with its three sources and its return, while         *)
(* read_input_events sends Quit among other messages.                      *)
(***************************************************************************)
QuitEvents ==
    {Key("q", "Press", {}), Key("Tab", "Press", {}), Mouse("Moved", 10, 9)}

ReadQuitEvent == ReadEvent(QuitEvents)

NextQuit ==
    \/ ReadQuitEvent
    \/ SendMessage
    \/ SendFails
    \/ Cancelled
    \/ RecvQueued
    \/ RefreshTick
    \/ DrawTick
    \/ Exit

SpecQuit == Init /\ [][NextQuit]_vars

(***************************************************************************)
(* SpecFair: the dispatcher and read_input_events over runs of any length. *)
(* The user may type for ever, but not further ahead of the dispatcher     *)
(* than MaxPending messages.  tokio::select! without `biased` starts its   *)
(* poll at a branch chosen at random, so a branch that stays ready is      *)
(* taken at some iteration: weak fairness of each of the three branches.   *)
(* Nothing obliges the terminal to deliver an event.  A redraw that        *)
(* changes something is possible exactly while the state is Running (the   *)
(* terminal sizes give different layouts), so weak fairness of the redraw  *)
(* branch is written out with Running as its enabling condition.           *)
(***************************************************************************)
MaxPending == 2

FairEvents == {Key("q", "Press", {}), Key("Tab", "Press", {})}

ReadFairEvent ==
    /\ input.pc = "read"
    /\ Len(queue) < MaxPending
    /\ \E event \in FairEvents :
          input' = [pc |-> IF event_msg(event) = NoMessage THEN "read" ELSE "send",
                    event |-> event,
                    msg |-> event_msg(event)]
    /\ UNCHANGED <<app, sys, last, calls, queue, run, details>>

NextFair ==
    \/ ReadFairEvent
    \/ SendMessage
    \/ SendFails
    \/ Cancelled
    \/ RecvQueued
    \/ RefreshTick
    \/ DrawTick
    \/ Exit

SpecFair ==
    /\ Init
    /\ [][NextFair]_vars
    /\ WF_vars(RefreshTick)
    /\ WF_vars(RecvQueued)
    /\ []<>(~Running) \/ []<><<DrawTick>>_vars

(***************************************************************************)
(* SpecFrame: scroll keys, wheel messages and sort keys with the focus     *)
(* held fixed (no Tab, no pointer movement, no redraw).  A run starts as   *)
(* one of SpecScroll does, with the sort state absent (the state at        *)
(* startup) or left behind by earlier sort keys.                           *)
(***************************************************************************)
FrameSorts == {None, Some("CPU", "Descending")}

InitFrame ==
    /\ \E tab \in SelectedTab, p \in 0..MaxPos, n \in 0..MaxPos, sort \in FrameSorts :
          app = [AppAt(tab, p, n) EXCEPT !.process_sort_state = sort]
    /\ sys \in Snapshots
    /\ last = InitEvent
    /\ calls = 0
    /\ queue = <<>>
    /\ input = Input_new
    /\ run = "loop"
    /\ details = Details_new

NextFrame ==
    \/ RecvScrollKey
    \/ RecvMouseScroll
    \/ RecvSortKey

SpecFrame == InitFrame /\ [][NextFrame]_vars

(***************************************************************************)
(* SpecFocus: the two focus paths (Tab and BackTab, pointer movement)      *)
(* between refresh and redraw ticks, on small terminals.  A redraw draws   *)
(* its terminal size from FocusSizes: the sizes up to MaxWidth x MaxHeight *)
(* of the two largest widths that give each line-based panel a height of   *)
(* at least 2.  The pointer positions cover every line of the columns at   *)
(* the left edge, on both sides of the CPU/memory border and right of the  *)
(* right edge.                                                             *)
(***************************************************************************)
MaxWidth == 12
MaxHeight == 17

Panels == {"Cpu", "Processes", "Disks", "Networks"}
LinePanels == {"Processes", "Disks", "Networks"}

\* the rectangle hover hit-tests for a focusable panel
PanelRect(layout, panel) ==
    CASE panel = "Cpu" -> layout.main_layout.cpu_plus_memory_layout.cpu_layout
      [] panel = "Processes" -> layout.main_layout.processes_layout
      [] panel = "Disks" -> layout.main_layout.disk_layout
      [] panel = "Networks" -> layout.main_layout.network_layout

\* every rectangle of an AppLayout: CPU, RAM, swap, Processes, Disks,
\* Networks, footer
LayoutRects(layout) ==
    <<layout.main_layout.cpu_plus_memory_layout.cpu_layout,
      layout.main_layout.cpu_plus_memory_layout.memory_layout.ram_layout,
      layout.main_layout.cpu_plus_memory_layout.memory_layout.swap_layout,
      layout.main_layout.processes_layout,
      layout.main_layout.disk_layout,
      layout.main_layout.network_layout,
      layout.footer_area>>

AllSizes == (0..MaxWidth) \X (0..MaxHeight)

FocusSizes ==
    {size \in {MaxWidth - 1, MaxWidth} \X (0..MaxHeight) :
        \A panel \in LinePanels : PanelRect(prepare_layout(size), panel).height >= 2}

FocusPositions ==
    {0, MaxWidth \div 2 - 1, MaxWidth \div 2, MaxWidth} \X (0..MaxHeight)

DrawTickFocus ==
    /\ Running
    /\ \E size \in FocusSizes, cpu_barchart \in CpuBarcharts :
          app' = draw(app, sys, size, cpu_barchart)
    /\ last' = DrawEvent
    /\ UNCHANGED <<sys, calls, queue, input, run, details>>

RecvMouseMovedFocus ==
    /\ \E position \in FocusPositions : Recv(MouseMoved(position))
    /\ UNCHANGED calls

NextFocus ==
    \/ RecvTabKey
    \/ RecvMouseMovedFocus
    \/ RefreshTick
    \/ DrawTickFocus

SpecFocus == Init /\ [][NextFocus]_vars

(***************************************************************************)
(* SpecTick: refresh and redraw ticks alone, from the states SpecFrame     *)
(* starts in: any focus, viewports scrolled, the sort state absent or set. *)
(***************************************************************************)
NextTick ==
    \/ RefreshTick
    \/ DrawTick

SpecTick == InitFrame /\ [][NextTick]_vars

(***************************************************************************)
(* SpecKeep: the messages that change the focus (Tab, BackTab, pointer     *)
(* movement) and the sort keys, from the states SpecFrame starts in; no    *)
(* scroll message and no tick.                                             *)
(***************************************************************************)
NextKeep ==
    \/ RecvTabKey
    \/ RecvMouseMoved
    \/ RecvSortKey

SpecKeep == InitFrame /\ [][NextKeep]_vars

(***************************************************************************)
(* SpecShrink: scrolling between redraws on the two tallest terminals,     *)
(* from startup.  One line of terminal height less leaves each of the      *)
(* Processes and Networks panels with one scroll position less or more, so *)
(* a redraw lowers a scroll bound without making it 0.  BackTab moves the  *)
(* focus, j and k scroll the focused line-based panel.                     *)
(***************************************************************************)
ShrinkSizes == {MaxWidth} \X {MaxHeight - 1, MaxHeight}

ShrinkKeys == {"BackTab", "j", "k"}

DrawTickShrink ==
    /\ Running
    /\ \E size \in ShrinkSizes, cpu_barchart \in CpuBarcharts :
          app' = draw(app, sys, size, cpu_barchart)
    /\ last' = DrawEvent
    /\ UNCHANGED <<sys, calls, queue, input, run, details>>

RecvShrinkKey ==
    /\ \E code \in ShrinkKeys : Recv(KeyPress(code))
    /\ UNCHANGED calls

NextShrink ==
    \/ RecvShrinkKey
    \/ DrawTickShrink

SpecShrink == Init /\ [][NextShrink]_vars

(***************************************************************************)
(* SpecDetails: one call of a builder of the CPU details bar chart, for    *)
(* every CPU count from 1 to MaxCpus and every panel height up to          *)
(* MaxPanelHeight.                                                         *)
(***************************************************************************)
MaxCpus == 4
MaxPanelHeight == 20

InitDetails ==
    /\ app = App_new
    /\ sys \in Snapshots
    /\ last = InitEvent
    /\ calls = 0
    /\ queue = <<>>
    /\ input = Input_new
    /\ run = "loop"
    /\ \E cpus \in 1..MaxCpus, layout_height \in 0..MaxPanelHeight :
          details = [Details_new EXCEPT !.cpus = cpus, !.layout_height = layout_height]

CallCreateDetailsCpuBarchart ==
    /\ details.result = NoResult
    /\ \E result \in create_details_cpu_barchart(details.cpus, details.layout_height) :
          details' = [details EXCEPT !.builder = "create_details_cpu_barchart",
                                     !.result = result]
    /\ UNCHANGED <<app, sys, last, calls, queue, input, run>>

CallRenderCpuDetailsTab ==
    /\ details.result = NoResult
    /\ \E result \in render_cpu_details_tab(details.cpus, details.layout_height) :
          details' = [details EXCEPT !.builder = "render_cpu_details_tab",
                                     !.result = result]
    /\ UNCHANGED <<app, sys, last, calls, queue, input, run>>

NextDetails ==
    \/ CallCreateDetailsCpuBarchart
    \/ CallRenderCpuDetailsTab

SpecDetails == InitDetails /\ [][NextDetails]_vars

(***************************************************************************)
(* SpecSmall: refresh and redraw ticks on terminals of every height up to  *)
(* MaxHeight, the small ones included, where a line-based panel gets fewer *)
(* than 2 lines.  Whether the overflowing subtraction of a widget builder  *)
(* panics or wraps depends on the build (overflow checks are on in the dev *)
(* profile and off in the release profile): both outcomes are steps here.  *)
(* A panic unwinds out of App::run; the record of the application is left *)
(* as it was, nothing reads it any more.                                   *)
(***************************************************************************)
SmallSizes == {MaxWidth} \X (0..MaxHeight)

\* a redraw at this size reaches layout_height - 2 with a height below 2
DrawOverflows(size) ==
    LET main_layout == prepare_layout(size).main_layout
    IN  \/ Underflows(main_layout.processes_layout.height)
        \/ Underflows(main_layout.disk_layout.height)
        \/ Underflows(main_layout.network_layout.height)

\* the redraw completes: no overflow, or a build without overflow checks
DrawTickSmall ==
    /\ Running
    /\ \E size \in SmallSizes, cpu_barchart \in CpuBarcharts :
          app' = draw(app, sys, size, cpu_barchart)
    /\ last' = DrawEvent
    /\ UNCHANGED <<sys, calls, queue, input, run, details>>

\* the redraw panics with "attempt to subtract with overflow"
DrawPanics ==
    /\ Running
    /\ \E size \in SmallSizes : DrawOverflows(size)
    /\ run' = "panicked"
    /\ UNCHANGED <<app, sys, last, calls, queue, input, details>>

NextSmall ==
    \/ RefreshTick
    \/ DrawTickSmall
    \/ DrawPanics

SpecSmall == Init /\ [][NextSmall]_vars

(***************************************************************************)
(* Properties                                                              *)
(***************************************************************************)

\* the viewport of a panel in dispatcher state a
Viewport(a, panel) ==
    CASE panel = "Cpu" -> a.cpu_scrollbar_state
      [] panel = "Processes" -> a.processes_scrollbar_state
      [] panel = "Disks" -> a.disks_scrollbar_state
      [] panel = "Networks" -> a.networks_scrollbar_state

InBounds(v) == 0 <= v.pos /\ v.pos <= v.max_scroll

IsScrollMessage(m) ==
    \/ m.type = "MouseScroll"
    \/ m.type = "KeyPress" /\ m.code \in ScrollNextKeys \cup ScrollPrevKeys

\* C1: with the bounds held fixed, a scroll_next/scroll_prev call on a
\* viewport with 0 <= pos <= max_scroll leaves 0 <= pos <= max_scroll, for
\* each of the four viewports (so it holds after any finite sequence).
C1_ScrollKeepsBounds ==
    [][\A panel \in Panels :
          (InBounds(Viewport(app, panel))
             /\ Viewport(app', panel).max_scroll = Viewport(app, panel).max_scroll)
          => InBounds(Viewport(app', panel))]_vars

C1_Witness ==
    /\ IsScrollMessage(last)
    /\ app.selected_tab = "Processes"
    /\ app.processes_scrollbar_state.pos = MaxPos
    /\ app.processes_scrollbar_state.max_scroll = MaxPos
    /\ app.processes_scrollbar_state.state.position = MaxPos

\* C2: in every reachable state of the dispatcher every viewport has
\* 0 <= pos <= max_scroll.
C2_AlwaysInBounds ==
    \A panel \in Panels : InBounds(Viewport(app, panel))

\* C3: a scroll message leaves pos and the thumb offset of every viewport
\* with max_scroll = 0 unchanged, whatever pos is.
C3_NoScrollAtZeroBound ==
    [][\A panel \in Panels :
          Viewport(app, panel).max_scroll = 0
          => /\ Viewport(app', panel).pos = Viewport(app, panel).pos
             /\ Viewport(app', panel).state.position
                    = Viewport(app, panel).state.position]_vars

C3_Witness ==
    /\ last = KeyPress("j")
    /\ app.selected_tab = "Disks"
    /\ app.disks_scrollbar_state.max_scroll = 0
    /\ app.disks_scrollbar_state.pos = 2

\* C4: from pos = 0 with max_scroll = n > 0, after k scroll_next calls on
\* the focused viewport pos = min(k, n).
C4_ScrollNextCounts ==
    Viewport(app, app.selected_tab).max_scroll > 0
    => Viewport(app, app.selected_tab).pos
          = Min(calls, Viewport(app, app.selected_tab).max_scroll)

C4_Witness ==
    /\ calls = 8
    /\ app.selected_tab = "Networks"
    /\ app.networks_scrollbar_state.max_scroll = 7
    /\ app.networks_scrollbar_state.pos = 7

\* C5: a scroll_prev call on a viewport with max_scroll > 0 sets pos to
\* pos - 1 when pos > 0 and leaves it 0 when pos = 0.
C5_ScrollPrevFloors ==
    [][(/\ last' \in ScrollPrevMessages(app.selected_tab)
        /\ Viewport(app, app.selected_tab).max_scroll > 0)
       => /\ Viewport(app', app.selected_tab).pos
               = IF Viewport(app, app.selected_tab).pos > 0
                 THEN Viewport(app, app.selected_tab).pos - 1
                 ELSE 0
          /\ Viewport(app', app.selected_tab).pos >= 0]_vars

C5_Witness ==
    /\ last = KeyPress("h")
    /\ app.selected_tab = "Cpu"
    /\ app.cpu_scrollbar_state.max_scroll = 2
    /\ app.cpu_scrollbar_state.pos = 0

\* C6: a redraw decrements the CPU pos by exactly 1 when pos equals the
\* previous max_scroll and the new max_scroll is strictly smaller, and
\* leaves the CPU pos unchanged in every other case.
C6_CpuResizeCorrection ==
    [][last' = DrawEvent
       => app'.cpu_scrollbar_state.pos
             = IF /\ app.cpu_scrollbar_state.pos = app.cpu_scrollbar_state.max_scroll
                  /\ app'.cpu_scrollbar_state.max_scroll < app.cpu_scrollbar_state.max_scroll
               THEN app.cpu_scrollbar_state.pos - 1
               ELSE app.cpu_scrollbar_state.pos]_vars

\* after the correction from pos = max_scroll = 2 to a new max_scroll of 0:
\* the thumb still shows the offset written for pos 2
C6_Witness ==
    /\ last = DrawEvent
    /\ app.cpu_scrollbar_state.pos = 1
    /\ app.cpu_scrollbar_state.max_scroll = 0
    /\ app.cpu_scrollbar_state.state.position = 2 * (MaxCpuContent \div 2)

\* C7: a redraw that computes a smaller max_scroll for the Processes, Disks
\* or Networks viewport while pos equals the previous max_scroll decrements
\* pos by 1.
C7_LinePanelResizeCorrection ==
    [][last' = DrawEvent
       => \A panel \in LinePanels :
             (/\ Viewport(app, panel).pos = Viewport(app, panel).max_scroll
              /\ Viewport(app', panel).max_scroll < Viewport(app, panel).max_scroll)
             => Viewport(app', panel).pos = Viewport(app, panel).pos - 1]_vars

\* the toggle transition of the sort state as the specification states it
Toggled(sort, c) ==
    IF sort = <<c, "Ascending">> THEN <<c, "Descending">>
    ELSE IF sort = <<c, "Descending">> THEN <<>>
    ELSE <<c, "Ascending">>

\* C8: toggling column c turns absent or another column into
\* (c, Ascending), (c, Ascending) into (c, Descending) and (c, Descending)
\* into absent, for every column and every sort state.
C8_ToggleColumn ==
    [][\A d \in 1..7 :
             (last' = KeyPress(<<"1", "2", "3", "4", "5", "6", "7">>[d])
                /\ app.selected_tab = "Processes")
             => app'.process_sort_state
                   = Toggled(app.process_sort_state,
                             <<"User", "PID", "PPID", "CPU", "Memory", "Time", "Command">>[d])]_vars

C8_Witness ==
    /\ last = KeyPress("4")
    /\ app.selected_tab = "Processes"
    /\ app.process_sort_state = <<"CPU", "Descending">>

\* C9: with Processes focused, 'r' sets the sort state to absent from every
\* sort state, and a second 'r' changes nothing.
C9_ResetSort ==
    [][(last' = KeyPress("r") /\ app.selected_tab = "Processes")
       => /\ app'.process_sort_state = <<>>
          /\ app' = [app EXCEPT !.process_sort_state = <<>>]
          /\ handle_events(app', KeyPress("r")) = app']_vars

C9_Witness ==
    /\ last = KeyPress("r")
    /\ app.selected_tab = "Processes"
    /\ app.process_sort_state = <<>>

\* the focus cycle as the specification states it, starting at None
TabCycle == <<"None", "Cpu", "Processes", "Disks", "Networks">>

RECURSIVE TabTimes(_, _)
TabTimes(a, k) == IF k = 0 THEN a ELSE TabTimes(handle_events(a, KeyPress("Tab")), k - 1)

\* C10: after k Tab presses from the initial focus None the focus is the
\* k-th element of the cycle None, Cpu, Processes, Disks, Networks; from
\* the current focus five Tab presses return to it and one to four do not.
C10_TabCycle ==
    /\ app.selected_tab = TabCycle[(calls % 5) + 1]
    /\ TabTimes(app, 5).selected_tab = app.selected_tab
    /\ \A k \in 1..4 : TabTimes(app, k).selected_tab # app.selected_tab

C10_Witness ==
    /\ last = KeyPress("Tab")
    /\ calls = 5
    /\ app.selected_tab = "None"

\* C11: BackTab undoes Tab and Tab undoes BackTab: from the state a Tab
\* step ends in, BackTab leads back to the state before the step, and the
\* other way round; and for each of the five focus values f,
\* prev(next(f)) = f and next(prev(f)) = f.
C11_BackTabInvertsTab ==
    [][/\ last' = KeyPress("Tab") => handle_events(app', KeyPress("BackTab")) = app
       /\ last' = KeyPress("BackTab") => handle_events(app', KeyPress("Tab")) = app
       /\ \A f \in SelectedTab :
             /\ prev_tab(next_tab([app EXCEPT !.selected_tab = f])).selected_tab = f
             /\ next_tab(prev_tab([app EXCEPT !.selected_tab = f])).selected_tab = f]_vars

\* BackTab from the initial focus None went to Networks
C11_Witness ==
    /\ last = KeyPress("BackTab")
    /\ app.selected_tab = "Networks"
    /\ app.layout_clone # AppLayout_empty

\* the hit test as the specification states it
HitTest(point, rect) ==
    /\ rect.x <= point[1] /\ point[1] < rect.x + rect.width
    /\ rect.y <= point[2] /\ point[2] < rect.y + rect.height

\* C12: for every rectangle of the cached layout, is_within_rect agrees
\* with the half-open hit test on every pointer position; the top-left
\* corner of a rectangle with non-zero width and height is inside, the
\* points (x + width, y) and (x, y + height) are outside, and a rectangle
\* of zero width or zero height contains no position.
C12_HitTestHalfOpen ==
    \A i \in 1..7 :
       LET rect == LayoutRects(app.layout_clone)[i]
       IN  /\ \A point \in FocusPositions :
                 is_within_rect(point, rect) <=> HitTest(point, rect)
           /\ (rect.width > 0 /\ rect.height > 0)
                 => is_within_rect(<<rect.x, rect.y>>, rect)
           /\ ~is_within_rect(<<rect.x + rect.width, rect.y>>, rect)
           /\ ~is_within_rect(<<rect.x, rect.y + rect.height>>, rect)
           /\ (rect.width = 0 \/ rect.height = 0)
                 => \A point \in FocusPositions : ~is_within_rect(point, rect)

\* the pointer moved to the first cell right of the CPU panel, on its top
\* line: the focus is not Cpu
C12_Witness ==
    LET cpu == PanelRect(app.layout_clone, "Cpu")
    IN  /\ cpu.width > 0 /\ cpu.height > 0
        /\ last = MouseMoved(<<cpu.x + cpu.width, cpu.y>>)
        /\ app.selected_tab = "None"

\* two rectangles share a cell
Overlap(r1, r2) ==
    /\ r1.width > 0 /\ r1.height > 0 /\ r2.width > 0 /\ r2.height > 0
    /\ r1.x < r2.x + r2.width /\ r2.x < r1.x + r1.width
    /\ r1.y < r2.y + r2.height /\ r2.y < r1.y + r1.height

NonOverlapping(layout) ==
    \A i, j \in 1..7 :
       i < j => ~Overlap(LayoutRects(layout)[i], LayoutRects(layout)[j])

\* C13: the rectangles of the cached layout are pairwise non-overlapping
\* in every state, and at most one of the four focusable panels passes the
\* hit test for a pointer position; the layout of every terminal size up
\* to MaxWidth x MaxHeight is non-overlapping (the layout is a function of
\* the size alone: it is evaluated once, in the initial state).
C13_PanelsDisjoint ==
    /\ NonOverlapping(app.layout_clone)
    /\ \A point \in FocusPositions :
          Cardinality({panel \in Panels :
                          is_within_rect(point, PanelRect(app.layout_clone, panel))}) <= 1
    /\ last = InitEvent
          => \A size \in AllSizes : NonOverlapping(prepare_layout(size))

\* the pointer is on the first line of the Processes panel, the line below
\* the last line of the CPU panel
C13_Witness ==
    LET cpu == PanelRect(app.layout_clone, "Cpu")
        processes == PanelRect(app.layout_clone, "Processes")
    IN  /\ processes.height > 0
        /\ processes.y = cpu.y + cpu.height
        /\ last = MouseMoved(<<0, processes.y>>)
        /\ app.selected_tab = "Processes"

\* the focus of a pointer position as the specification states it
HoverOrder == <<"Cpu", "Processes", "Disks", "Networks">>

HoverFocus(point, layout) ==
    LET matching == {i \in 1..4 : is_within_rect(point, PanelRect(layout, HoverOrder[i]))}
    IN  IF matching = {}
        THEN "None"
        ELSE HoverOrder[CHOOSE i \in matching : \A j \in matching : i <= j]

\* C14: a MouseMoved step sets the focus to the first of Cpu, Processes,
\* Disks, Networks whose cached rectangle contains the position, and to
\* None when none does, whatever the focus was before, and changes nothing
\* else.
C14_HoverSetsFocus ==
    [][last'.type = "MouseMoved"
       => app' = [app EXCEPT !.selected_tab =
                                HoverFocus(last'.position, app.layout_clone)]]_vars

\* the pointer is over the RAM gauge of a drawn layout: the focus is None
C14_Witness ==
    LET ram == app.layout_clone.main_layout.cpu_plus_memory_layout.memory_layout.ram_layout
    IN  /\ last.type = "MouseMoved"
        /\ is_within_rect(last.position, ram)
        /\ app.selected_tab = "None"

\* dispatcher state b differs from a at most in pos and the thumb offset of
\* the viewport of panel
OnlyScrolled(a, b, panel) ==
    LET va == Viewport(a, panel)
        vb == Viewport(b, panel)
        v == [va EXCEPT !.pos = vb.pos, !.state.position = vb.state.position]
    IN  b = CASE panel = "Cpu" -> [a EXCEPT !.cpu_scrollbar_state = v]
              [] panel = "Processes" -> [a EXCEPT !.processes_scrollbar_state = v]
              [] panel = "Disks" -> [a EXCEPT !.disks_scrollbar_state = v]
              [] panel = "Networks" -> [a EXCEPT !.networks_scrollbar_state = v]

\* C15: a step handling h/Left/l/Right changes at most pos and thumb of
\* the CPU viewport, and nothing unless the focus is Cpu; a step handling
\* j/Down/k/Up changes at most pos and thumb of the viewport of the
\* focused panel, and nothing unless the focus is Processes, Disks or
\* Networks.
C15_ScrollKeyFrame ==
    [][\A code \in ScrollNextKeys \cup ScrollPrevKeys :
          last' = KeyPress(code)
          => IF code \in {"h", "Left", "l", "Right"}
             THEN IF app.selected_tab = "Cpu"
                  THEN OnlyScrolled(app, app', "Cpu")
                  ELSE app' = app
             ELSE IF app.selected_tab \in LinePanels
                  THEN OnlyScrolled(app, app', app.selected_tab)
                  ELSE app' = app]_vars

\* 'l' with the focus on Disks: the CPU viewport could move (pos 1 of 3)
\* and the sort state is set
C15_Witness ==
    /\ last = KeyPress("l")
    /\ app.selected_tab = "Disks"
    /\ app.cpu_scrollbar_state.pos = 1
    /\ app.cpu_scrollbar_state.max_scroll = 3
    /\ app.process_sort_state # <<>>

\* C16: with Processes focused a step handling the digit d toggles the
\* d-th of User, PID, PPID, CPU, Memory, Time, Command and changes nothing
\* else; with any other focus a step handling a digit or 'r' changes
\* nothing.
C16_SortKeysNeedFocus ==
    [][/\ \A d \in 1..7 :
             last' = KeyPress(<<"1", "2", "3", "4", "5", "6", "7">>[d])
             => app' = IF app.selected_tab = "Processes"
                       THEN [app EXCEPT !.process_sort_state =
                               Toggled(@, <<"User", "PID", "PPID", "CPU", "Memory",
                                            "Time", "Command">>[d])]
                       ELSE app
       /\ (last' = KeyPress("r") /\ app.selected_tab # "Processes") => app' = app]_vars

\* the digit 3 with the focus on Disks left the sort state (CPU, Descending)
C16_Witness ==
    /\ last = KeyPress("3")
    /\ app.selected_tab = "Disks"
    /\ app.process_sort_state = <<"CPU", "Descending">>

\* the key the specification pairs with a wheel direction
WheelKey(direction) ==
    CASE direction = "Up" -> "k"
      [] direction = "Down" -> "j"
      [] direction = "Left" -> "h"
      [] direction = "Right" -> "l"

\* C17: in every state, handling MouseScroll(direction) gives the state
\* that handling the paired key gives, and every wheel step ends in that
\* state.
C17_WheelEqualsKeys ==
    [][\A direction \in MouseScrollDirection :
          /\ handle_events(app, MouseScroll(direction))
                = handle_events(app, KeyPress(WheelKey(direction)))
          /\ last' = MouseScroll(direction)
                => app' = handle_events(app, KeyPress(WheelKey(direction)))]_vars

C17_Witness ==
    /\ last = MouseScroll("Down")
    /\ app.selected_tab = "Networks"
    /\ app.networks_scrollbar_state.pos = 2
    /\ app.networks_scrollbar_state.max_scroll = 3
    /\ app.processes_scrollbar_state.pos = 1

\* C18: the step that handles Quit ends with state Exiting, and from a
\* state with state Exiting no step changes the dispatcher state, the
\* snapshot or the last serviced event, or takes a message out of the
\* channel: what is queued behind Quit stays queued.
C18_QuitStopsDispatcher ==
    [][/\ (last' = Quit /\ app.state = "Running" /\ last' # last)
             => app'.state = "Exiting"
       /\ (queue # <<>> /\ Head(queue) = Quit /\ Len(queue') < Len(queue))
             => app'.state = "Exiting"
       /\ app.state = "Exiting"
             => /\ app' = app /\ sys' = sys /\ last' = last
                /\ Len(queue') >= Len(queue)
                /\ SubSeq(queue', 1, Len(queue)) = queue]_vars

\* Quit was handled after a redraw and a Tab; the pointer movement sent
\* behind it is still in the channel
C18_Witness ==
    /\ app.state = "Exiting"
    /\ last = Quit
    /\ app.selected_tab = "Cpu"
    /\ app.layout_clone # AppLayout_empty
    /\ queue = <<MouseMoved(<<10, 9>>)>>
    /\ input.pc = "read"
    /\ calls = MaxEvents

\* C19: the state is Running at startup; a step changes it only from
\* Running to Exiting and only by handling Quit; no step leaves Exiting.
C19_ExitingOnlyByQuit ==
    [][/\ last = InitEvent => app.state = "Running"
       /\ app'.state # app.state
             => /\ app.state = "Running"
                /\ app'.state = "Exiting"
                /\ last' = Quit
       /\ app.state = "Exiting" => app'.state = "Exiting"]_vars

C19_Witness ==
    /\ app.state = "Exiting"
    /\ last = Quit
    /\ app.selected_tab = "Disks"
    /\ app.processes_scrollbar_state.pos = 1

\* the classification of a raw event as the specification states it
ClaimedMessage(event) ==
    IF event.type = "Key"
    THEN IF event.code \in {"q", "Esc"} \/ (event.code = "c" /\ event.modifiers = {"CONTROL"})
         THEN Quit
         ELSE KeyPress(event.code)
    ELSE IF event.type = "Mouse" /\ event.kind
                \in {"ScrollUp", "ScrollDown", "ScrollLeft", "ScrollRight"}
    THEN MouseScroll(CASE event.kind = "ScrollUp" -> "Up"
                       [] event.kind = "ScrollDown" -> "Down"
                       [] event.kind = "ScrollLeft" -> "Left"
                       [] event.kind = "ScrollRight" -> "Right")
    ELSE IF event.type = "Mouse" /\ event.kind = "Moved"
    THEN MouseMoved(<<event.column, event.row>>)
    ELSE NoMessage

\* the same, with the key events that are not presses discarded
PressMessage(event) ==
    IF event.type = "Key" /\ event.kind # "Press"
    THEN NoMessage
    ELSE ClaimedMessage(event)

\* read_input_events sends, for each event it reads, the message Msg gives
\* and nothing when Msg gives none; the channel grows by one message at a
\* time, and only in the send that follows a read
Classifies(Msg(_)) ==
    /\ calls' = calls + 1
          => /\ queue' = queue
             /\ input'.msg = Msg(input'.event)
             /\ input'.pc = IF Msg(input'.event) = NoMessage THEN "read" ELSE "send"
    /\ Len(queue') > Len(queue)
          => /\ input.pc = "send" /\ input'.pc = "read"
             /\ queue' = Append(queue, Msg(input.event))

\* C20 as stated: q, Esc and Ctrl+C give Quit, every other key event gives
\* KeyPress(code), wheel events give MouseScroll, pointer movement gives
\* MouseMoved, every other event gives nothing.
C20_EveryKeyEventClassified == [][Classifies(ClaimedMessage)]_vars

\* C20 amended: as stated for the key events of kind Press; a key event of
\* another kind (release, repeat) gives nothing.
C20_KeyPressesClassified == [][Classifies(PressMessage)]_vars

\* the release of q was read after its press: Quit was sent once, the
\* release is discarded
C20_Witness ==
    /\ input.event = Key("q", "Release", {})
    /\ input.msg = NoMessage
    /\ input.pc = "read"
    /\ queue = <<Quit>>

\* the number of messages built and not yet sent
Pending == IF input.pc = "send" THEN 1 ELSE 0

\* the channel holds at most ChannelCapacity messages, and every Tab press
\* read so far is in the channel, waiting to be sent, or was handled: the
\* focus is the one that many Tab presses lead to
ChannelKeepsAll ==
    /\ Len(queue) <= ChannelCapacity
    /\ calls - Len(queue) - Pending >= 0
    /\ app.selected_tab = TabCycle[((calls - Len(queue) - Pending) % 5) + 1]
    /\ \A i \in 1..Len(queue) : queue[i] = KeyPress("Tab")

\* C21: the channel never holds more than 10 messages; with the channel
\* full, read_input_events stays at its send, reading nothing, until the
\* dispatcher has received a message, and then sends the message it holds;
\* no message is lost: each one read is waiting, queued or handled.
C21_BoundedChannelBlocks ==
    [][/\ ChannelKeepsAll /\ ChannelKeepsAll'
       /\ (Len(queue) = ChannelCapacity /\ input.pc = "send")
             => /\ input' = input /\ calls' = calls
                /\ queue' = Tail(queue)
       /\ (input.pc = "send" /\ input' # input)
             => /\ Len(queue) < ChannelCapacity
                /\ queue' = Append(queue, input.msg)]_vars

\* twelve presses read: one handled, ten in the channel, the twelfth held
\* by the blocked send
C21_Witness ==
    /\ calls = 12
    /\ Len(queue) = ChannelCapacity
    /\ input.pc = "send"
    /\ app.selected_tab = "Cpu"

\* a step of the dispatcher: it services something or returns
DispatcherStep == app' # app \/ sys' # sys \/ last' # last \/ run' # run

\* a step of read_input_events
InputStep == input' # input \/ calls' # calls

ServicesRefresh ==
    /\ last' = RefreshEvent
    /\ sys' \in Snapshots
    /\ app' = app /\ queue' = queue

ServicesRedraw ==
    /\ last' = DrawEvent
    /\ \E size \in TermSizes, cpu_barchart \in CpuBarcharts :
          app' = draw(app, sys, size, cpu_barchart)
    /\ sys' = sys /\ queue' = queue

ServicesMessage ==
    /\ queue # <<>>
    /\ last' = Head(queue)
    /\ app' = handle_events(app, Head(queue))
    /\ queue' = Tail(queue)
    /\ sys' = sys

\* C22: every step in which the dispatcher services something is one
\* whole refresh, or one whole redraw of the state the step starts in, or
\* the handling of exactly one message (the oldest queued), and only one
\* of the three; it starts in a Running state, and the state it starts in
\* is the one the previous step ended in.
C22_OneServicePerIteration ==
    [][(DispatcherStep /\ run' = run)
       => /\ app.state = "Running"
          /\ \/ ServicesRefresh /\ ~ServicesMessage /\ last' # DrawEvent
             \/ ServicesRedraw /\ ~ServicesMessage /\ last' # RefreshEvent
             \/ ServicesMessage /\ last' \notin {RefreshEvent, DrawEvent}
          /\ input' = input /\ calls' = calls]_vars

\* a redraw was serviced while two messages wait and read_input_events
\* holds a third
C22_Witness ==
    /\ last = DrawEvent
    /\ Len(queue) = 2
    /\ input.pc = "send"
    /\ app.layout_clone # AppLayout_empty

\* C23: a step of read_input_events changes nothing but its own position
\* and locals and the channel, to which it only appends; a step of the
\* dispatcher changes neither of those locals and at most removes the
\* oldest message from the channel.
C23_InputTouchesOnlyChannel ==
    [][/\ (InputStep \/ Len(queue') > Len(queue))
          => /\ app' = app /\ sys' = sys /\ last' = last /\ run' = run
             /\ queue' \in {queue, Append(queue, input.msg)}
       /\ DispatcherStep
          => /\ input' = input /\ calls' = calls
             /\ queue' = queue \/ (queue # <<>> /\ queue' = Tail(queue))]_vars

\* read_input_events has built Quit and not sent it: the dispatcher is
\* Running and has just redrawn
C23_Witness ==
    /\ input.pc = "send"
    /\ input.msg = Quit
    /\ app.state = "Running"
    /\ last = DrawEvent
    /\ queue = <<KeyPress("Tab")>>

\* C24: a send with the receiver gone ends read_input_events in the same
\* step, with nothing added to the channel; having returned, it reads no
\* event and sends nothing; while App::run is in its loop the task does not
\* return.
C24_FailedSendEndsInput ==
    [][/\ (input.pc = "send" /\ run = "returned" /\ input' # input)
          => /\ input'.pc \in {"returned", "aborted"}
             /\ queue' = queue /\ calls' = calls
       /\ input.pc \in {"returned", "aborted"}
          => /\ input' = input /\ calls' = calls /\ queue' = queue
       /\ input'.pc = "returned" => run = "returned"]_vars

\* Quit was handled and App::run returned; the Tab read after it was not
\* sent, and a third event is not read
C24_Witness ==
    /\ input.pc = "returned"
    /\ input.event = Key("Tab", "Press", {})
    /\ run = "returned"
    /\ queue = <<>>
    /\ calls = 2

\* C25: after App::run has returned, read_input_events is stopped unless
\* it is at its send, where it stops by itself: it has stopped also when
\* no further terminal event arrives.
C25_InputStoppedAfterReturn ==
    (run = "returned" /\ input.pc # "send")
    => input.pc \in {"returned", "aborted"}

\* the item count of a line-based panel in a snapshot
ItemCount(s, panel) ==
    CASE panel = "Processes" -> s.processes
      [] panel = "Disks" -> s.disks
      [] panel = "Networks" -> s.networks

\* C26: only a refresh changes the snapshot, and a redraw computes the
\* scroll bound of each line-based panel from the snapshot as the last
\* refresh before it left it: item count minus visible lines, not below 0.
C26_RedrawSeesLastRefresh ==
    [][/\ sys' # sys => (last' = RefreshEvent /\ app' = app)
       /\ (last' = DrawEvent /\ DispatcherStep)
          => /\ ServicesRedraw
             /\ \A panel \in LinePanels :
                   Viewport(app', panel).max_scroll
                      = saturating_sub(ItemCount(sys, panel),
                                       PanelRect(app'.layout_clone, panel).height - 2)]_vars

\* a redraw of the busy snapshot after a refresh replaced the idle one: the
\* Processes panel has a scroll bound
C26_Witness ==
    /\ last = DrawEvent
    /\ sys.processes = MaxProcesses
    /\ app.processes_scrollbar_state.max_scroll
          = MaxProcesses - (app.layout_clone.main_layout.processes_layout.height - 2)
    /\ app.processes_scrollbar_state.max_scroll > 0

\* C28: the channel changes only by a send, which appends the message at
\* the end, and by a receive, which removes the oldest message and applies
\* exactly that one: messages are applied in the order they were sent,
\* each once.
C28_FifoDelivery ==
    [][queue' # queue
       => \/ /\ queue' = Append(queue, input.msg)
             /\ app' = app /\ last' = last
          \/ /\ queue # <<>>
             /\ queue' = Tail(queue)
             /\ last' = Head(queue)
             /\ app' = handle_events(app, Head(queue))]_vars

\* sent: Tab, pointer movement, Quit; Tab was applied, the other two wait
\* in the order sent
C28_Witness ==
    /\ last = KeyPress("Tab")
    /\ app.selected_tab = "Cpu"
    /\ queue = <<MouseMoved(<<10, 9>>), Quit>>

\* the dispatcher has handled Quit: nothing is serviced any more
Stopped == app.state = "Exiting"

\* the last thing the dispatcher serviced is a message from the channel
MessageServiced == last \notin {InitEvent, RefreshEvent, DrawEvent}

\* C27: with each branch of the dispatcher's wait treated fairly, as long
\* as no Quit is handled the refresh and the redraw are serviced again and
\* again, whatever the channel holds, and again and again a message is
\* received or the channel is empty: with delivery in sending order no
\* queued message waits for ever.
C27_NoSourceStarves ==
    /\ []<>(Stopped \/ last = RefreshEvent)
    /\ []<>(Stopped \/ last = DrawEvent)
    /\ []<>(Stopped \/ queue = <<>> \/ MessageServiced)

\* a redraw was serviced after three messages, while the channel holds
\* all the messages the user is ahead by
C27_Witness ==
    /\ last = DrawEvent
    /\ Len(queue) = MaxPending
    /\ app.selected_tab = "Disks"
    /\ app.layout_clone # AppLayout_empty

\* C29: every redraw stores the layout it has just computed and drawn
\* with (the scroll bounds it leaves are those of the stored panel
\* heights), nothing but a redraw changes the stored layout, and a
\* MouseMoved step looks the position up in the layout stored when it
\* starts; while the stored layout is still the empty one of startup, every
\* MouseMoved step sets the focus to None.
C29_HoverUsesLastLayout ==
    [][/\ last' = DrawEvent
          => /\ LET footer == app'.layout_clone.footer_area
                    size == <<footer.width, footer.y + footer.height>>
                IN  size \in FocusSizes /\ app'.layout_clone = prepare_layout(size)
             /\ \A panel \in LinePanels :
                   Viewport(app', panel).max_scroll
                      = saturating_sub(ItemCount(sys', panel),
                                       PanelRect(app'.layout_clone, panel).height - 2)
       /\ app'.layout_clone # app.layout_clone => last' = DrawEvent
       /\ last'.type = "MouseMoved"
          => /\ app'.selected_tab = HoverFocus(last'.position, app.layout_clone)
             /\ app.layout_clone = AppLayout_empty => app'.selected_tab = "None"]_vars

\* the pointer moved to the top left corner before any redraw: the focus
\* is None
C29_Witness ==
    /\ last = MouseMoved(<<0, 0>>)
    /\ app.layout_clone = AppLayout_empty
    /\ app.selected_tab = "None"

\* C30: in every state the thumb offset of the Processes, Disks and
\* Networks viewports equals their position.
C30_LineThumbEqualsPos ==
    \A panel \in LinePanels :
        Viewport(app, panel).state.position = Viewport(app, panel).pos

\* a redraw after the Processes panel was scrolled one line down
C30_Witness ==
    /\ last = DrawEvent
    /\ app.processes_scrollbar_state.pos = 1
    /\ app.processes_scrollbar_state.state.position = 1
    /\ app.processes_scrollbar_state.max_scroll >= 1

\* C31: in every state the thumb offset of the CPU viewport equals its
\* position times (rendered content length div scroll bound); where the
\* scroll bound is 0 the quotient does not exist, and the thumb offset is
\* then only required to be position times some ratio up to the content
\* length.
C31_CpuThumbScaled ==
    LET s == app.cpu_scrollbar_state
    IN  IF s.max_scroll > 0
        THEN s.state.position = s.pos * (s.real_content_length \div s.max_scroll)
        ELSE \E ratio \in 0..s.real_content_length :
                s.state.position = s.pos * ratio

\* C32: no redraw fails, and after a redraw each line-based panel has a
\* visible line count (panel height - 2) that is not negative and a scroll
\* bound equal to max(0, item count - visible line count).
C32_RedrawNeverFails ==
    /\ run # "panicked"
    /\ last = DrawEvent
       => \A panel \in LinePanels :
             LET visible_lines == PanelRect(app.layout_clone, panel).height - 2
                 items == ItemCount(sys, panel)
             IN  /\ visible_lines >= 0
                 /\ Viewport(app, panel).max_scroll
                       = IF items > visible_lines THEN items - visible_lines ELSE 0

\* dispatcher state b differs from a at most in the four viewports and the
\* cached layout
OnlyRedrawn(a, b) ==
    b = [a EXCEPT !.layout_clone = b.layout_clone,
                  !.cpu_scrollbar_state = b.cpu_scrollbar_state,
                  !.processes_scrollbar_state = b.processes_scrollbar_state,
                  !.disks_scrollbar_state = b.disks_scrollbar_state,
                  !.networks_scrollbar_state = b.networks_scrollbar_state]

\* C33: a refresh step changes nothing but the snapshot; a redraw step
\* leaves the snapshot alone and changes nothing of the application but
\* the four viewports and the cached layout: focus, sort state and
\* ApplicationState are as before.
C33_TicksKeepFocusAndSort ==
    [][/\ last' = RefreshEvent
          => /\ app' = app
             /\ queue' = queue /\ input' = input /\ run' = run
       /\ last' = DrawEvent
          => /\ sys' = sys
             /\ OnlyRedrawn(app, app')
             /\ queue' = queue /\ input' = input /\ run' = run]_vars

\* a redraw lowered the scroll bound of the focused Processes panel from 3
\* to 1; the focus and the sort state (CPU, Descending) are in place
C33_Witness ==
    /\ last = DrawEvent
    /\ app.selected_tab = "Processes"
    /\ app.process_sort_state = Some("CPU", "Descending")
    /\ app.processes_scrollbar_state.pos = 3
    /\ app.processes_scrollbar_state.max_scroll = 1

\* the messages that change the focus
IsFocusMessage(m) ==
    \/ m.type = "MouseMoved"
    \/ m.type = "KeyPress" /\ m.code \in TabKeys

\* the sort keys
IsSortMessage(m) == m.type = "KeyPress" /\ m.code \in SortKeys

\* C34: a Tab, BackTab or MouseMoved step changes nothing of the
\* application but the focus (every viewport, the cached layout and the
\* sort state are as before), and a digit or r step changes nothing but
\* the sort state (the focus and every viewport are as before).
C34_FocusAndSortFrames ==
    [][/\ IsFocusMessage(last')
          => app' = [app EXCEPT !.selected_tab = app'.selected_tab]
       /\ IsSortMessage(last')
          => app' = [app EXCEPT !.process_sort_state = app'.process_sort_state]
       /\ sys' = sys]_vars

\* the focus went from Processes on to Disks: the Processes viewport is
\* still at position 2 and the sort state still (CPU, Descending)
C34_Witness ==
    /\ last = KeyPress("Tab")
    /\ app.selected_tab = "Disks"
    /\ app.process_sort_state = Some("CPU", "Descending")
    /\ app.processes_scrollbar_state.pos = 2
    /\ app.processes_scrollbar_state.max_scroll = 3

\* the messages that reach scroll_next / scroll_prev of some viewport
IsScrollNext(m) ==
    \/ m.type = "KeyPress" /\ m.code \in ScrollNextKeys
    \/ m.type = "MouseScroll" /\ m.direction \in {"Down", "Right"}

IsScrollPrev(m) ==
    \/ m.type = "KeyPress" /\ m.code \in ScrollPrevKeys
    \/ m.type = "MouseScroll" /\ m.direction \in {"Up", "Left"}

\* C35: a scroll-next step lowers the position of no viewport and a
\* scroll-previous step raises none, whatever redraws came before.
C35_ScrollDirection ==
    [][\A panel \in Panels :
          /\ IsScrollNext(last') => Viewport(app', panel).pos >= Viewport(app, panel).pos
          /\ IsScrollPrev(last') => Viewport(app', panel).pos <= Viewport(app, panel).pos]_vars

\* C38: a builder of the CPU details bar chart returns, for every CPU
\* count and panel height, a scroll bound computed without overflow: a
\* non-negative integer, equal to the CPU count less the visible bars.
C38_DetailsBoundNotNegative ==
    details.result # NoResult
    => /\ details.result.kind = "value"
       /\ details.result.value >= 0

\* C36: a step that changes the sort state to (c, Descending) is the toggle
\* of column c, by its digit key with Processes focused, from
\* (c, Ascending); and where the sort state is absent, three toggles of any
\* one column give absent again, through (c, Ascending) and (c, Descending).
C36_DescendingFromAscending ==
    [][/\ (/\ app'.process_sort_state # app.process_sort_state
           /\ app'.process_sort_state # None
           /\ app'.process_sort_state[2] = "Descending")
          => /\ app.process_sort_state = Some(app'.process_sort_state[1], "Ascending")
             /\ app.selected_tab = "Processes"
             /\ last'.type = "KeyPress"
             /\ last'.code \in {"1", "2", "3", "4", "5", "6", "7"}
             /\ DigitColumn(last'.code) = app'.process_sort_state[1]
       /\ (app.process_sort_state = None /\ app.selected_tab = "Processes")
          => \A code \in {"1", "2", "3", "4", "5", "6", "7"} :
                LET a1 == handle_events(app, KeyPress(code))
                    a2 == handle_events(a1, KeyPress(code))
                    a3 == handle_events(a2, KeyPress(code))
                IN  /\ a1.process_sort_state = Some(DigitColumn(code), "Ascending")
                    /\ a2.process_sort_state = Some(DigitColumn(code), "Descending")
                    /\ a3.process_sort_state = None]_vars

\* the second toggle of the PID column: (PID, Descending)
C36_Witness ==
    /\ last = KeyPress("2")
    /\ app.selected_tab = "Processes"
    /\ app.process_sort_state = Some("PID", "Descending")

\* the state App::new constructs, as the claim lists it
StartupState ==
    /\ app.state = "Running"
    /\ app.selected_tab = "None"
    /\ app.process_sort_state = None
    /\ \A panel \in Panels :
          Viewport(app, panel).pos = 0 /\ Viewport(app, panel).max_scroll = 0
    /\ \A i \in 1..7 : LayoutRects(app.layout_clone)[i] = Rect(0, 0, 0, 0)

\* the scroll bound of the focused panel, 0 with no panel focused
FocusedBound(a) ==
    IF a.selected_tab = "None" THEN 0 ELSE Viewport(a, a.selected_tab).max_scroll

\* C37: a run starts in the state App::new constructs (Running, focus
\* None, sort state absent, every viewport at position 0 with scroll bound
\* 0, an all-zero cached layout); only a redraw changes a scroll bound, and
\* a scroll key or wheel step taken while the focused panel has scroll
\* bound 0 changes no position.
C37_StartupState ==
    /\ StartupState
    /\ [][/\ (\E panel \in Panels :
                 Viewport(app', panel).max_scroll # Viewport(app, panel).max_scroll)
             => last' = DrawEvent
          /\ (IsScrollMessage(last') /\ FocusedBound(app) = 0)
             => \A panel \in Panels :
                   Viewport(app', panel).pos = Viewport(app, panel).pos]_vars

\* before any redraw the focus was moved to Processes and j was pressed:
\* the position is still 0
C37_Witness ==
    /\ last = KeyPress("j")
    /\ app.selected_tab = "Processes"
    /\ app.layout_clone = AppLayout_empty
    /\ app.processes_scrollbar_state.pos = 0
    /\ app.processes_scrollbar_state.max_scroll = 0

====
